---- MODULE Spec2Model ----
\* State machine of detector.DetectionResults (src/detector/detection_results.go):
\* the Failures and ignores maps, the mutating calls Fail and Ignore, the reads
\* GetFailures / HasFailures / Successful, and Report with its table rows and
\* the suggested .talismanrc block.
EXTENDS FiniteSets, Integers, Naturals, Sequences, TLC

\* ---------------------------------------------------------------- bounds
NumPaths == 2
MaxCalls == 3

\* ---------------------------------------------------------------- constants
\* message length above which a table cell is split (line 129)
TruncLen == 150
\* the byte of the "\n" inserted by the split (line 130)
NL == 10

\* ---------------------------------------------------------------- inputs
PathNames == <<"a", "b", "c", "d", "e", "f">>
Paths == {PathNames[i] : i \in 1..NumPaths}
\* a message of n bytes; bytes alternate so that a split position is visible
Msg(n) == [i \in 1..n |-> 97 + (i % 2)]
Messages == {Msg(TruncLen), Msg(TruncLen + 1)}
CommitLists == {<<>>, <<"c1">>}
Detectors == {"d1", "d2"}

\* ---------------------------------------------------------------- helpers
Range(s) == {s[i] : i \in DOMAIN s}
Perms(S) == {s \in [1..Cardinality(S) -> S] : \A i, j \in DOMAIN s : i # j => s[i] # s[j]}
EmptyMap == [x \in {} |-> <<>>]

\* CalculateCollectiveHash: external checksum service, a pure function of the path list
RECURSIVE JoinPaths(_)
JoinPaths(ps) == IF ps = <<>> THEN "" ELSE Head(ps) \o ";" \o JoinPaths(Tail(ps))
CalculateCollectiveHash(ps) == "sha:" \o JoinPaths(ps)

\* NewFaulureData
NewFaulureData(message, commits) == [Message |-> message, Commits |-> commits]

\* map[k] = append(map[k], v), or map[k] = []T{v} when k is absent
\* mutant: a repeated Fail replaces the earlier failures of the path
AppendFailureOverwrite(f, p, fd) ==
  IF p \in DOMAIN f THEN [f EXCEPT ![p] = <<fd>>] ELSE (p :> <<fd>>) @@ f
AppendFailure(f, p, fd) ==
  IF p \in DOMAIN f THEN [f EXCEPT ![p] = Append(@, fd)] ELSE (p :> <<fd>>) @@ f
\* mutant: a detector name already recorded for the path is not appended again
AppendIgnoreDedup(ig, p, d) ==
  IF p \in DOMAIN ig THEN IF d \in Range(ig[p]) THEN ig ELSE [ig EXCEPT ![p] = Append(@, d)]
  ELSE (p :> <<d>>) @@ ig
AppendIgnore(ig, p, d) ==
  IF p \in DOMAIN ig THEN [ig EXCEPT ![p] = Append(@, d)] ELSE (p :> <<d>>) @@ ig

HasFailures(f) == DOMAIN f # {}
HasIgnores(ig) == DOMAIN ig # {}
\* mutant: a run with a single failing file counts as successful
SuccessfulMut(f) == Cardinality(DOMAIN f) < 2
Successful(f) == ~HasFailures(f)
\* a read of a Go map yields the nil slice for an absent key
\* mutant: reading an absent path yields a placeholder record
GetFailuresMut(f, p) == IF p \in DOMAIN f THEN f[p] ELSE <<NewFaulureData(<<>>, <<>>)>>
GetFailures(f, p) == IF p \in DOMAIN f THEN f[p] ELSE <<>>


\* the cell text of one failure message (lines 129-131)
TruncateMessage(m) ==
  IF Len(m) > TruncLen
  THEN SubSeq(m, 1, TruncLen) \o <<NL>> \o SubSeq(m, TruncLen + 1, Len(m))
  ELSE m

RECURSIVE JoinCommits(_)
JoinCommits(cs) ==
  IF cs = <<>> THEN "" ELSE IF Len(cs) = 1 THEN Head(cs) ELSE Head(cs) \o "\n" \o JoinCommits(Tail(cs))

RECURSIVE MessageRows(_, _, _, _)
MessageRows(p, fd, ms, toBeScanned) ==
  IF ms = <<>> THEN <<>>
  ELSE <<IF toBeScanned THEN <<p, TruncateMessage(Head(ms)), JoinCommits(fd.Commits)>>
                        ELSE <<p, TruncateMessage(Head(ms))>>>>
       \o MessageRows(p, fd, Tail(ms), toBeScanned)

RECURSIVE FailureRows(_, _, _)
FailureRows(p, fds, toBeScanned) ==
  IF fds = <<>> THEN <<>>
  ELSE MessageRows(p, Head(fds), Head(fds).Message, toBeScanned) \o FailureRows(p, Tail(fds), toBeScanned)

\* ReportFileFailures: the table rows of one failing path
\* mutant: only the first FailureData of a path is rendered
ReportFileFailuresFirst(f, p, toBeScanned) ==
  IF Len(GetFailures(f, p)) > 0 THEN FailureRows(p, <<Head(GetFailures(f, p))>>, toBeScanned) ELSE <<>>
ReportFileFailures(f, p, toBeScanned) ==
  IF Len(GetFailures(f, p)) > 0 THEN FailureRows(p, GetFailures(f, p), toBeScanned) ELSE <<>>

\* unique: keeps the first occurrence of every entry, in order
RECURSIVE Reverse(_)
Reverse(s) == IF s = <<>> THEN <<>> ELSE Reverse(Tail(s)) \o <<Head(s)>>
RECURSIVE UniqueFrom(_, _)
UniqueFrom(s, seen) ==
  IF s = <<>> THEN <<>>
  ELSE IF Head(s) \in seen THEN UniqueFrom(Tail(s), seen)
       ELSE <<Head(s)>> \o UniqueFrom(Tail(s), seen \cup {Head(s)})
\* mutant: no deduplication
uniqueNoDedup(s) == s
\* mutant: keeps the last occurrence of every entry
uniqueKeepLast(s) == Reverse(UniqueFrom(Reverse(s), {}))
unique(s) == UniqueFrom(s, {})

\* FileIgnoreConfig records of the suggestion
IgnoreConfigs(ps) ==
  [i \in 1..Len(ps) |-> [FileName |-> ps[i], Checksum |-> CalculateCollectiveHash(<<ps[i]>>),
                         AllowedPatterns |-> <<>>]]

\* yaml.Marshal of TalismanRCIgnore{configs}: one line per key
RECURSIVE MarshalConfigs(_)
MarshalConfigs(cs) ==
  IF cs = <<>> THEN <<>>
  ELSE <<<<"- filename:", Head(cs).FileName>>, <<"  checksum:", Head(cs).Checksum>>,
         <<"  allowed_patterns:", "[]">>>> \o MarshalConfigs(Tail(cs))
Marshal(cs) == <<<<"fileignoreconfig:", "">>>> \o MarshalConfigs(cs)

suggestTalismanRC(ps) == Marshal(IgnoreConfigs(ps))

RECURSIVE CollectRows(_, _)
CollectRows(f, order) ==
  IF order = <<>> THEN <<>> ELSE ReportFileFailures(f, Head(order), FALSE) \o CollectRows(f, Tail(order))

\* Report for one iteration order fo of Failures and io of ignores:
\* what it writes to standard output and what it returns, as sequences of pieces
\* mutant: the banner is printed even for a successful run
ReportOutputBannerAlways(f, fo, io) ==
  LET paths == unique(fo \o io)
      data == CollectRows(f, fo)
  IN IF Cardinality(DOMAIN f) > 0
     THEN [stdout |-> <<<<"banner", <<>>>>, <<"table", data>>>>,
           ret |-> <<<<"note", <<>>>>, <<"yaml", suggestTalismanRC(paths)>>, <<"newlines", <<>>>>>>]
     ELSE [stdout |-> <<<<"banner", <<>>>>>>, ret |-> <<>>]
\* mutant: the banner is returned in front of the note instead of being printed
ReportOutputBannerReturned(f, fo, io) ==
  LET paths == unique(fo \o io)
      data == CollectRows(f, fo)
  IN IF Cardinality(DOMAIN f) > 0
     THEN [stdout |-> <<<<"table", data>>>>,
           ret |-> <<<<"banner", <<>>>>, <<"note", <<>>>>, <<"yaml", suggestTalismanRC(paths)>>,
                     <<"newlines", <<>>>>>>]
     ELSE [stdout |-> <<>>, ret |-> <<>>]
ReportOutput(f, fo, io) ==
  LET paths == unique(fo \o io)
      data == CollectRows(f, fo)
  IN IF Cardinality(DOMAIN f) > 0
     THEN [stdout |-> <<<<"banner", <<>>>>, <<"table", data>>>>,
           ret |-> <<<<"note", <<>>>>, <<"yaml", suggestTalismanRC(paths)>>, <<"newlines", <<>>>>>>]
     ELSE [stdout |-> <<>>, ret |-> <<>>]

\* ---------------------------------------------------------------- state
VARIABLES failures, ignores, failLog, ignLog, last

vars == <<failures, ignores, failLog, ignLog, last>>

NoObs == [op |-> "none", path |-> "", got |-> <<>>, has |-> FALSE, succ |-> FALSE,
          ret |-> <<>>, stdout |-> <<>>]

Init ==
  /\ failures = EmptyMap
  /\ ignores = EmptyMap
  /\ failLog = <<>>
  /\ ignLog = <<>>
  /\ last = NoObs

Budget == Len(failLog) + Len(ignLog) < MaxCalls

Fail ==
  /\ Budget
  /\ \E p \in Paths, m \in Messages, c \in CommitLists :
       /\ failures' = AppendFailure(failures, p, NewFaulureData(<<m>>, c))
       /\ failLog' = Append(failLog, [path |-> p, message |-> m, commits |-> c])
       /\ last' = [NoObs EXCEPT !.op = "Fail", !.path = p]
  /\ UNCHANGED <<ignores, ignLog>>

Ignore ==
  /\ Budget
  /\ \E p \in Paths, d \in Detectors :
       /\ ignores' = AppendIgnore(ignores, p, d)
       /\ ignLog' = Append(ignLog, [path |-> p, detector |-> d])
       /\ last' = [NoObs EXCEPT !.op = "Ignore", !.path = p]
  /\ UNCHANGED <<failures, failLog>>

GetFailuresOp ==
  /\ \E p \in Paths :
       last' = [NoObs EXCEPT !.op = "GetFailures", !.path = p, !.got = GetFailures(failures, p)]
  /\ UNCHANGED <<failures, ignores, failLog, ignLog>>

HasFailuresOp ==
  /\ last' = [NoObs EXCEPT !.op = "HasFailures", !.has = HasFailures(failures),
                           !.succ = Successful(failures)]
  /\ UNCHANGED <<failures, ignores, failLog, ignLog>>

\* map iteration order is unspecified: any order of the keys
Report ==
  /\ \E fo \in Perms(DOMAIN failures), io \in Perms(DOMAIN ignores) :
       LET out == ReportOutput(failures, fo, io)
       IN last' = [NoObs EXCEPT !.op = "Report", !.ret = out.ret, !.stdout = out.stdout]
  /\ UNCHANGED <<failures, ignores, failLog, ignLog>>

Next == Fail \/ Ignore \/ GetFailuresOp \/ HasFailuresOp \/ Report

Spec == Init /\ [][Next]_vars


\* ---------------------------------------------------------------- claim helpers
Filter(log, p) == SelectSeq(log, LAMBDA e : e.path = p)
LoggedPaths(log) == {log[i].path : i \in DOMAIN log}
ReturnedYaml == last.ret[2][2]
SuggestedNames == LET ls == SelectSeq(ReturnedYaml, LAMBDA l : l[1] = "- filename:")
                  IN [i \in 1..Len(ls) |-> ls[i][2]]
SuggestedChecksums == LET ls == SelectSeq(ReturnedYaml, LAMBDA l : l[1] = "  checksum:")
                      IN [i \in 1..Len(ls) |-> ls[i][2]]
SuggestedPatterns == LET ls == SelectSeq(ReturnedYaml, LAMBDA l : l[1] = "  allowed_patterns:")
                     IN [i \in 1..Len(ls) |-> ls[i][2]]
TableRows == last.stdout[2][2]
RowsFor(p) == SelectSeq(TableRows, LAMBDA r : r[1] = p)
Reported == last.op = "Report" /\ HasFailures(failures)

\* C1: for every path, GetFailures(p) holds one FailureData per Fail(p, m, c) call,
\* in call order, each with messages <<m>> and commits c, whatever Ignore calls interleave.
C1_FailuresAccumulate ==
  \A p \in Paths :
    LET calls == Filter(failLog, p)
    IN GetFailures(failures, p) =
         [i \in 1..Len(calls) |-> [Message |-> <<calls[i].message>>, Commits |-> calls[i].commits]]
C1_Witness ==
  \E p \in Paths : Len(GetFailures(failures, p)) >= 2 /\ ignLog # <<>>
     /\ failures[p][1] # failures[p][2]

\* C2: HasFailures() holds iff some Fail call happened, and Successful() = ~HasFailures();
\* a run with Ignore calls only is successful.
C2_HasFailuresIffFailed ==
  /\ HasFailures(failures) <=> failLog # <<>>
  /\ Successful(failures) <=> ~HasFailures(failures)
  /\ last.op = "HasFailures" => (last.has <=> failLog # <<>>) /\ (last.succ <=> failLog = <<>>)
C2_Witness ==
  last.op = "HasFailures" /\ failLog = <<>> /\ ignLog # <<>> /\ last.succ

\* C3: with no failures, Report returns the empty string and writes nothing to standard output,
\* also when some paths were ignored.
C3_SilentWithoutFailures ==
  (last.op = "Report" /\ failLog = <<>>) => last.ret = <<>> /\ last.stdout = <<>>
C3_Witness ==
  last.op = "Report" /\ failLog = <<>> /\ ignLog # <<>>

\* C4: with failures, the file names of the suggested ignore block are exactly the keys of
\* Failures and ignores, each path in exactly one record.
C4_SuggestionCoversPaths ==
  Reported =>
    /\ Range(SuggestedNames) = DOMAIN failures \cup DOMAIN ignores
    /\ Len(SuggestedNames) = Cardinality(DOMAIN failures \cup DOMAIN ignores)
C4_Witness ==
  /\ Reported
  /\ DOMAIN failures \cap DOMAIN ignores # {}
  /\ \E p \in DOMAIN failures : Len(failures[p]) >= 2

C7_BannerReturned ==
  Reported =>
    /\ last.ret[1][1] = "banner" /\ last.ret[2][1] = "note" /\ last.ret[3][1] = "yaml"
    /\ Len(last.stdout) = 1 /\ last.stdout[1][1] = "table"
\* C7 (amended): with failures, the banner and then the table are written to standard
\* output, and the returned string is the note, the ignore block and two newlines.
C7_BannerPrinted ==
  Reported =>
    /\ Len(last.stdout) = 2 /\ last.stdout[1][1] = "banner" /\ last.stdout[2][1] = "table"
    /\ Len(last.ret) = 3
    /\ last.ret[1][1] = "note" /\ last.ret[2][1] = "yaml" /\ last.ret[3][1] = "newlines"
C7_Witness == Reported /\ ignLog # <<>>

IgnoresMatchLog ==
  /\ DOMAIN ignores = LoggedPaths(ignLog)
  /\ \A p \in DOMAIN ignores :
       LET calls == Filter(ignLog, p) IN ignores[p] = [i \in 1..Len(calls) |-> calls[i].detector]
\* C8: Ignore(p, d) appends d to ignores[p] (duplicates kept, nothing removed or replaced);
\* Ignore leaves Failures alone and Fail leaves ignores alone.
C8_IgnoresAppendOnly ==
  [][/\ IgnoresMatchLog'
     /\ (last'.op = "Ignore" => failures' = failures)
     /\ (last'.op = "Fail" => ignores' = ignores)
     /\ \A p \in DOMAIN ignores : p \in DOMAIN ignores'
                                  /\ SubSeq(ignores'[p], 1, Len(ignores[p])) = ignores[p]]_vars
C8_Witness ==
  \E p \in DOMAIN ignores : p \in DOMAIN failures /\ Len(ignores[p]) >= 2
     /\ ignores[p][1] = ignores[p][2]

\* C9: the keys of Failures are exactly the paths passed to Fail, no value is empty, and
\* GetFailures on a path without failures yields the empty sequence and adds no key.
C9_KeysAreFailedPaths ==
  /\ DOMAIN failures = LoggedPaths(failLog)
  /\ \A p \in DOMAIN failures : failures[p] # <<>>
  /\ last.op = "GetFailures" /\ last.path \notin DOMAIN failures => last.got = <<>>
C9_Witness ==
  last.op = "GetFailures" /\ last.path \notin DOMAIN failures /\ failLog # <<>>

====
